---------------------------- MODULE Spec2Model ----------------------------
(***************************************************************************)
(* pandas-plink, src/pandas_plink/read.py: read_plink and its helpers.     *)
(*                                                                         *)
(* One call of read_plink(file_prefix) is modelled as a sequential state   *)
(* machine.  The three input files are part of the state; the program      *)
(* counter pc says which statement of read_plink / _read_bed runs next.    *)
(* The two `with open(...)` blocks of the header validation are split in   *)
(* three steps each (enter, body, exit) so that the life of the file       *)
(* handle is visible.                                                      *)
(*                                                                         *)
(* The verbose flag and the TimeIt blocks only report progress and are     *)
(* left out.                                                               *)
(*                                                                         *)
(* The bit-level decoder read_bed lives in the native module ._bed_read,   *)
(* which is not part of the source at hand; it is modelled from section    *)
(* 4.2 of the specification.                                               *)
(***************************************************************************)
EXTENDS Integers, Sequences, FiniteSets

(***************************************************************************)
(* Bounds of the explored inputs.                                          *)
(***************************************************************************)
\* largest number of markers (.bim records) of a packed genotype file
MaxMarkers == 5
\* largest number of samples (.fam records) of a packed genotype file
MaxSamples == 3
\* largest number of records of a metadata table whose order is varied
MaxRecords == 3
\* sort-key components of the varied metadata tables range over 1..MaxKey
MaxKey == 2
\* most bytes cut off the end of a .bed payload
MaxCut == 1
\* most bytes appended after a .bed payload
MaxExtra == 1

Byte == 0..255

Min(a, b) == IF a < b THEN a ELSE b

(***************************************************************************)
(* Text.  A str is the sequence of its code points, a bytes object the     *)
(* sequence of its bytes; a path is such a value with its type.            *)
(***************************************************************************)
RECURSIVE Concat(_)
\* the pieces of a sequence of sequences, joined
Concat(pieces) ==
    IF pieces = <<>> THEN <<>> ELSE Head(pieces) \o Concat(Tail(pieces))

\* v.encode(): the UTF-8 bytes of a str (code points below 0x10000, no
\* surrogates)
Utf8(text) ==
    Concat([k \in 1..Len(text) |->
              IF text[k] < 128 THEN <<text[k]>>
              ELSE IF text[k] < 2048
                   THEN <<192 + (text[k] \div 64), 128 + (text[k] % 64)>>
                   ELSE <<224 + (text[k] \div 4096),
                          128 + ((text[k] \div 64) % 64),
                          128 + (text[k] % 64)>>])

\* the code point of a lower-case hexadecimal digit
HexDigit(d) == IF d < 10 THEN 48 + d ELSE 87 + d

\* repr() of a bytes object, which is also what "%s" formats it to: b'...'
\* (b"..." when it holds ' and no "), with the quote and the backslash
\* escaped, \t \n \r, and \xhh for every other byte outside 0x20..0x7e
BytesRepr(bs) ==
    LET has(c) == \E k \in DOMAIN bs : bs[k] = c
        quote  == IF has(39) /\ ~has(34) THEN 34 ELSE 39
        esc(c) == IF c = quote \/ c = 92 THEN <<92, c>>
                  ELSE IF c = 9 THEN <<92, 116>>
                  ELSE IF c = 10 THEN <<92, 110>>
                  ELSE IF c = 13 THEN <<92, 114>>
                  ELSE IF c < 32 \/ c >= 127
                       THEN <<92, 120, HexDigit(c \div 16), HexDigit(c % 16)>>
                       ELSE <<c>>
    IN  <<98, quote>> \o Concat([k \in 1..Len(bs) |-> esc(bs[k])]) \o <<quote>>

\* what "%s" formats a path to: a str as it is, a bytes object as its repr
FormatS(v) == IF v.type = "bytes" THEN BytesRepr(v.val) ELSE v.val

(***************************************************************************)
(* Exceptions: the kind and the text of the message (code points).  The    *)
(* text of the errors raised outside read.py is not modelled.              *)
(***************************************************************************)
NoExc == [kind |-> "None", msg |-> <<>>]

\* arr[k] on a bytes object that is too short (read.py:174, read.py:183):
\* "index out of range"
IndexError ==
    [kind |-> "IndexError",
     msg |-> <<105, 110, 100, 101, 120, 32, 111, 117, 116, 32, 111, 102, 32, 114, 97, 110, 103, 101>>]

\* raised by pd.read_csv on a file it cannot read or parse
ParserError == [kind |-> "ParserError", msg |-> <<>>]

\* the decoder's failure on a payload that is too short (spec 4.2)
TruncatedFile == [kind |-> "TruncatedFile", msg |-> <<>>]

ValueError(msg) == [kind |-> "ValueError", msg |-> msg]

\* "Invalid BED file: %s." % fn
InvalidBedMessage(fn) ==
    <<73, 110, 118, 97, 108, 105, 100, 32, 66, 69, 68, 32, 102, 105, 108, 101, 58, 32>>
    \o FormatS(fn) \o <<46>>

\* "Couldn't understand matrix layout."
LayoutMessage ==
    <<67, 111, 117, 108, 100, 110, 39, 116, 32, 117, 110, 100, 101, 114, 115, 116, 97, 110, 100, 32, 109, 97, 116, 114, 105, 120, 32, 108, 97, 121, 111, 117, 116, 46>>

(***************************************************************************)
(* Paths.  fn = {s: "%s.%s" % (file_prefix, s)} on a str prefix;           *)
(* _ascii_airlock encodes a str to bytes and leaves bytes alone.           *)
(***************************************************************************)
\* the suffix 'bed'
BedSuffix == <<98, 101, 100>>

Fn(prefix, s) == [val |-> prefix \o <<46>> \o s, type |-> "str"]

_ascii_airlock(v) ==
    IF v.type # "bytes" THEN [val |-> Utf8(v.val), type |-> "bytes"] ELSE v

(***************************************************************************)
(* Metadata tables.  A row of a .bim file is <<chrom, pos>>, a row of a    *)
(* .fam file is <<fid, iid>> (the other four columns take no part in       *)
(* indexing or sorting).  Labels are represented by their rank in sort     *)
(* order.  sort_index on a two-level index is a stable lexicographic sort. *)
(***************************************************************************)
\* lexicographic order of two-level index keys
KeyLess(a, b) == a[1] < b[1] \/ (a[1] = b[1] /\ a[2] < b[2])

\* df.sort_index(): the rows of df in the order of their keys (key[k] is the
\* index key of row k), rows of equal key in their former order
sort_index(df, key) ==
    LET n == Len(df)
        rank(k) == 1 + Cardinality({j \in 1..n :
                        \/ KeyLess(key[j], key[k])
                        \/ (j < k /\ ~KeyLess(key[k], key[j]))})
    IN  [p \in 1..n |-> df[CHOOSE k \in 1..n : rank(k) = p]]

BimIndex(df) == [k \in 1..Len(df) |-> <<df[k].chrom, df[k].pos>>]

FamIndex(df) == [k \in 1..Len(df) |-> <<df[k].fid, df[k].iid>>]

\* df['i'] = range(df.shape[0]) on the .bim rows
BimFrame(rows) ==
    [k \in 1..Len(rows) |-> [chrom |-> rows[k][1], pos |-> rows[k][2], i |-> k - 1]]

\* df['i'] = range(df.shape[0]) on the .fam rows
FamFrame(rows) ==
    [k \in 1..Len(rows) |-> [fid |-> rows[k][1], iid |-> rows[k][2], i |-> k - 1]]

\* a slip: the index column is assigned after the sort instead of before
_read_bim_renumbered(rows) ==
    LET sorted == sort_index(BimFrame(rows), BimIndex(BimFrame(rows)))
    IN  [k \in 1..Len(sorted) |-> [sorted[k] EXCEPT !.i = k - 1]]

_read_bim(rows) == sort_index(BimFrame(rows), BimIndex(BimFrame(rows)))

_read_fam(rows) == sort_index(FamFrame(rows), FamIndex(FamFrame(rows)))

(***************************************************************************)
(* Header validation: the bodies of the two with-blocks.                   *)
(***************************************************************************)
ReadBytes(file, offset, n) == SubSeq(file, offset + 1, Min(offset + n, Len(file)))

\* a slip: only the first magic byte is compared
check_bed_header_first_byte_only(arr, fn) ==
    IF Len(arr) < 1 THEN IndexError
    ELSE IF arr[1] # 108 THEN ValueError(InvalidBedMessage(fn))
    ELSE NoExc

\* ok = _ord(arr[0]) == 108 and _ord(arr[1]) == 27; if not ok: raise ValueError
check_bed_header_body(arr, fn) ==
    IF Len(arr) < 1 THEN IndexError
    ELSE IF arr[1] # 108 THEN ValueError(InvalidBedMessage(fn))
    ELSE IF Len(arr) < 2 THEN IndexError
    ELSE IF arr[2] # 27 THEN ValueError(InvalidBedMessage(fn))
    ELSE NoExc

\* a slip: the two layouts are exchanged
major_order_swapped(arr) ==
    IF Len(arr) < 1 THEN [exc |-> IndexError, ret |-> ""]
    ELSE IF arr[1] = 1 THEN [exc |-> NoExc, ret |-> "individual"]
    ELSE IF arr[1] = 0 THEN [exc |-> NoExc, ret |-> "snp"]
    ELSE [exc |-> ValueError(LayoutMessage), ret |-> ""]

\* if _ord(arr[0]) == 1: 'snp'; elif _ord(arr[0]) == 0: 'individual'; else raise
major_order_body(arr) ==
    IF Len(arr) < 1 THEN [exc |-> IndexError, ret |-> ""]
    ELSE IF arr[1] = 1 THEN [exc |-> NoExc, ret |-> "snp"]
    ELSE IF arr[1] = 0 THEN [exc |-> NoExc, ret |-> "individual"]
    ELSE [exc |-> ValueError(LayoutMessage), ret |-> ""]

\* a slip: the handle is closed by hand after the body, so not when it raises
CloseOnSuccessOnly(open, h, e) == IF e = NoExc THEN open \ {h} ELSE open

\* leaving `with open(fn, "rb") as f:` closes f, whether or not the body raised
CloseOnExit(open, h, e) == open \ {h}

(***************************************************************************)
(* _read_bed: the physical shape handed to the decoder.                    *)
(***************************************************************************)
\* a slip: the number of physical columns does not follow the layout
NcolsIgnoringMajor(mjr, nsamp, nmark) == nsamp

Ncols(mjr, nsamp, nmark) == IF mjr = "individual" THEN nmark ELSE nsamp

\* a slip: the number of physical rows does not follow the layout
NrowsIgnoringMajor(mjr, nsamp, nmark) == nmark

Nrows(mjr, nsamp, nmark) == IF mjr = "snp" THEN nmark ELSE nsamp

(***************************************************************************)
(* The decoder read_bed(fn, nrows, ncols), modelled from spec 4.2.         *)
(***************************************************************************)
Pow4(k) == IF k = 0 THEN 1 ELSE IF k = 1 THEN 4 ELSE IF k = 2 THEN 16 ELSE 64

BytesPerRow(ncols) == (ncols + 3) \div 4

\* a slip: the four codes are taken most-significant pair first
UnpackMsbFirst(byte) == [k \in 1..4 |-> (byte \div Pow4(4 - k)) % 4]

\* the four 2-bit codes of a byte, least-significant pair first
Unpack(byte) == [k \in 1..4 |-> (byte \div Pow4(k - 1)) % 4]

\* 0b00 -> 2, 0b10 -> 1, 0b11 -> 0, 0b01 -> 3 (missing)
CodeToCall(code) ==
    CASE code = 0 -> 2
      [] code = 2 -> 1
      [] code = 3 -> 0
      [] code = 1 -> 3

\* the physical matrix: row r of the file is bytes (r-1)*bpr+1 .. r*bpr
DecodeRows(payload, nrows, ncols) ==
    LET bpr == BytesPerRow(ncols)
    IN  [r \in 1..nrows |->
           [c \in 1..ncols |->
              CodeToCall(Unpack(payload[(r - 1) * bpr + ((c - 1) \div 4) + 1])
                               [((c - 1) % 4) + 1])]]

Transpose(mat, nrows, ncols) ==
    [c \in 1..ncols |-> [r \in 1..nrows |-> mat[r][c]]]

\* The decoder opens the file itself: it skips the 3-byte header, needs
\* bytes_per_row * nrows payload bytes, and presents the cells as
\* matrix[marker][sample] in either layout.
read_bed(file, nrows, ncols) ==
    LET payload == SubSeq(file, 4, Len(file))
        need    == BytesPerRow(ncols) * nrows
        phys    == DecodeRows(payload, nrows, ncols)
    IN  IF Len(payload) < need
        THEN [exc |-> TruncatedFile, ret |-> <<>>]
        ELSE [exc |-> NoExc,
              ret |-> IF file[3] = 0 THEN Transpose(phys, nrows, ncols) ELSE phys]

(***************************************************************************)
(* Input files.  A .bed file is packed from a logical genotype matrix      *)
(* (PLINK's writer, the inverse of the decoder): this is how the inputs    *)
(* of the exploration are built, the program never sees it.                *)
(***************************************************************************)
CallToCode(call) ==
    CASE call = 2 -> 0
      [] call = 1 -> 2
      [] call = 0 -> 3
      [] call = 3 -> 1

\* the genotype calls a matrix is filled from
BaseCalls == <<2, 1, 3, 0>>

\* the logical matrix of a seed: cell (m, s), both 0-based
Genotype(seed, nmark, nsamp) ==
    [m \in 1..nmark |->
       [s \in 1..nsamp |->
          BaseCalls[((seed[1] * (m - 1) + seed[2] * (s - 1) + seed[3]) % 4) + 1]]]

\* the payload of logical matrix G in the layout that orientation byte b2
\* declares (0: individual-major, otherwise snp-major), pad bits set to pad
Pack(G, nmark, nsamp, b2, pad) ==
    LET rows == IF b2 = 0 THEN nsamp ELSE nmark
        cols == IF b2 = 0 THEN nmark ELSE nsamp
        bpr  == BytesPerRow(cols)
        cell(r, c) == IF b2 = 0 THEN G[c][r] ELSE G[r][c]
        code(r, c) == IF c <= cols THEN CallToCode(cell(r, c)) ELSE pad
        byte(r, j) == code(r, 4 * j + 1) + 4 * code(r, 4 * j + 2)
                      + 16 * code(r, 4 * j + 3) + 64 * code(r, 4 * j + 4)
    IN  [x \in 1..(rows * bpr) |-> byte(((x - 1) \div bpr) + 1, (x - 1) % bpr)]

\* rows of a table in an order that is not sorted
CanonRows(n) == [k \in 1..n |-> <<1, n + 1 - k>>]

KeySeqs ==
    UNION {[1..n -> (1..MaxKey) \X (1..MaxKey)] : n \in 0..MaxRecords}

Seeds == {<<a, b, c>> : a \in 0..3, b \in 0..3, c \in 0..3}

\* the bytes of the .bed file of a fileset: the header <<b0, b1, b2>>, then the
\* payload of the seed's matrix; keep < 3 ends the file inside the header,
\* tail < 0 cuts bytes off the payload, tail > 0 appends bytes to it
BedBytes(nmark, nsamp, b0, b1, b2, seed, pad, tail, keep) ==
    LET header  == <<b0, b1, b2>>
        payload == Pack(Genotype(seed, nmark, nsamp), nmark, nsamp, b2, pad)
        full    == header \o payload
    IN  IF keep < 3 THEN SubSeq(header, 1, keep)
        ELSE IF tail < 0 THEN SubSeq(full, 1, Len(full) - Min(0 - tail, Len(payload)))
        ELSE full \o [k \in 1..tail |-> 85]

(***************************************************************************)
(* State.                                                                  *)
(***************************************************************************)
VARIABLES
    file_prefix,   \* argument of read_plink
    bimFile,       \* {prefix}.bim: [bad, rows]
    famFile,       \* {prefix}.fam: [bad, rows]
    bedFile,       \* {prefix}.bed: its bytes
    genotype,      \* the logical matrix bedFile was packed from (input only)
    pc,            \* the statement that runs next
    bim, nmarkers, \* read_plink's locals
    fam, nsamples,
    bed,
    arr,           \* the bytes read inside the current with-block
    exc,           \* the exception raised inside the current with-block
    handles,       \* the open file handles of header validation
    major,         \* _read_bed's local
    decoderCalls,  \* the calls of read_bed made so far, <<nrows, ncols>> each
    result,        \* what read_plink returned
    err,           \* what read_plink raised
    steps          \* the steps read_plink has performed, <<name, outcome>> each

vars == <<file_prefix, bimFile, famFile, bedFile, genotype, pc, bim, nmarkers,
          fam, nsamples, bed, arr, exc, handles, major, decoderCalls, result,
          err, steps>>

inputs == <<file_prefix, bimFile, famFile, bedFile, genotype>>

NoResult == [returned |-> FALSE, bim |-> <<>>, fam |-> <<>>, bed |-> <<>>]

\* the prefix data/chr
PlainPrefix == <<100, 97, 116, 97, 47, 99, 104, 114>>

\* the prefixes read_plink is called with: data/chr, data/c\hr (a backslash),
\* data/chr followed by e-acute (a letter outside ASCII), it's/chr (a quote)
Prefixes ==
    {PlainPrefix,
     <<100, 97, 116, 97, 47, 99, 92, 104, 114>>,
     <<100, 97, 116, 97, 47, 99, 104, 114, 233>>,
     <<105, 116, 39, 115, 47, 99, 104, 114>>}

\* the state in which read_plink is called on a fileset
Setup(prefix, bimRows, bimBad, famRows, famBad, b0, b1, b2, seed, pad, tail, keep) ==
    /\ file_prefix = prefix
    /\ bimFile = [bad |-> bimBad, rows |-> bimRows]
    /\ famFile = [bad |-> famBad, rows |-> famRows]
    /\ bedFile = BedBytes(Len(bimRows), Len(famRows), b0, b1, b2, seed, pad, tail, keep)
    /\ genotype = Genotype(seed, Len(bimRows), Len(famRows))
    /\ pc = "read_bim"
    /\ bim = <<>> /\ nmarkers = 0
    /\ fam = <<>> /\ nsamples = 0
    /\ bed = <<>>
    /\ arr = <<>>
    /\ exc = NoExc
    /\ handles = {}
    /\ major = ""
    /\ decoderCalls = <<>>
    /\ result = NoResult
    /\ err = NoExc
    /\ steps = <<>>

\* well-formed filesets of every shape, layout and content; payloads exact,
\* cut short or followed by extra bytes
InitCodec ==
    \E nm \in 0..MaxMarkers, ns \in 0..MaxSamples, b2 \in {0, 1}, seed \in Seeds,
       pad \in {0, 3}, tail \in (0 - MaxCut)..MaxExtra :
        Setup(PlainPrefix, CanonRows(nm), FALSE, CanonRows(ns), FALSE, 108, 27, b2, seed, pad, tail, 3)

\* metadata tables in every order
InitTables ==
    \E rows \in KeySeqs, b2 \in {0, 1} :
        \/ Setup(PlainPrefix, rows, FALSE, CanonRows(2), FALSE, 108, 27, b2, <<1, 1, 0>>, 0, 0, 3)
        \/ Setup(PlainPrefix, CanonRows(2), FALSE, rows, FALSE, 108, 27, b2, <<1, 1, 0>>, 0, 0, 3)

\* metadata files pd.read_csv fails on
InitBadTables ==
    \E bb \in BOOLEAN, fb \in BOOLEAN :
        Setup(PlainPrefix, CanonRows(1), bb, CanonRows(1), fb, 108, 27, 1, <<1, 1, 0>>, 0, 0, 3)

\* every value of the orientation byte, under a good and under a bad magic
InitOrientation ==
    \E b0 \in {108, 27}, b1 \in {27, 108}, b2 \in Byte :
        Setup(PlainPrefix, CanonRows(2), FALSE, CanonRows(1), FALSE, b0, b1, b2, <<1, 1, 0>>, 0, 0, 3)

\* files that end inside the 3-byte header
InitShort ==
    \E b0 \in {108, 0}, b1 \in {27, 0}, keep \in 0..2 :
        Setup(PlainPrefix, CanonRows(1), FALSE, CanonRows(1), FALSE, b0, b1, 1, <<1, 1, 0>>, 0, 0, keep)

\* every value of the two magic bytes
InitMagic ==
    \E b0 \in Byte, b1 \in Byte, b2 \in {0, 1} :
        Setup(PlainPrefix, CanonRows(1), FALSE, CanonRows(1), FALSE, b0, b1, b2, <<1, 1, 0>>, 0, 0, 3)

\* every prefix, on files that pass and files that fail each header check
InitPaths ==
    \E prefix \in Prefixes, b0 \in {108, 0}, b1 \in {27, 0}, b2 \in {0, 1, 2}, keep \in 1..3 :
        Setup(prefix, CanonRows(1), FALSE, CanonRows(1), FALSE, b0, b1, b2, <<1, 1, 0>>, 0, 0, keep)

Init ==
    InitCodec \/ InitTables \/ InitBadTables \/ InitOrientation \/ InitShort
    \/ InitPaths

(***************************************************************************)
(* read_plink, statement by statement.                                     *)
(***************************************************************************)
\* the path _read_bed works with
BedFn == _ascii_airlock(Fn(file_prefix, BedSuffix))

\* an exception leaves read_plink: the call ends with it
Raise(step, e) ==
    /\ pc' = "failed"
    /\ err' = e
    /\ steps' = Append(steps, <<step, "fail">>)

\* a slip: an unreadable marker table is taken for an empty one
ReadBimDegraded ==
    /\ pc = "read_bim"
    /\ bim' = IF bimFile.bad THEN <<>> ELSE _read_bim(bimFile.rows)
    /\ nmarkers' = Len(bim')
    /\ pc' = "read_fam"
    /\ steps' = Append(steps, <<"bim", "ok">>)
    /\ UNCHANGED <<inputs, fam, nsamples, bed, arr, exc, handles, major,
                   decoderCalls, result, err>>

\* bim = _read_bim(fn['bim']); nmarkers = bim.shape[0]
ReadBim ==
    /\ pc = "read_bim"
    /\ IF bimFile.bad
       THEN /\ Raise("bim", ParserError)
            /\ UNCHANGED <<bim, nmarkers>>
       ELSE /\ bim' = _read_bim(bimFile.rows)
            /\ nmarkers' = Len(bim')
            /\ pc' = "read_fam"
            /\ steps' = Append(steps, <<"bim", "ok">>)
            /\ err' = err
    /\ UNCHANGED <<inputs, fam, nsamples, bed, arr, exc, handles, major,
                   decoderCalls, result>>

\* fam = _read_fam(fn['fam']); nsamples = fam.shape[0]
ReadFam ==
    /\ pc = "read_fam"
    /\ IF famFile.bad
       THEN /\ Raise("fam", ParserError)
            /\ UNCHANGED <<fam, nsamples>>
       ELSE /\ fam' = _read_fam(famFile.rows)
            /\ nsamples' = Len(fam')
            /\ pc' = "hdr_open"
            /\ steps' = Append(steps, <<"fam", "ok">>)
            /\ err' = err
    /\ UNCHANGED <<inputs, bim, nmarkers, bed, arr, exc, handles, major,
                   decoderCalls, result>>

\* _check_bed_header: with open(fn, "rb") as f
CheckHeaderOpen ==
    /\ pc = "hdr_open"
    /\ handles' = handles \cup {"_check_bed_header.f"}
    /\ pc' = "hdr_body"
    /\ UNCHANGED <<inputs, bim, nmarkers, fam, nsamples, bed, arr, exc, major,
                   decoderCalls, result, err, steps>>

\* _check_bed_header: arr = f.read(2) and the comparison with the magic pair
CheckHeaderBody ==
    /\ pc = "hdr_body"
    /\ arr' = ReadBytes(bedFile, 0, 2)
    /\ exc' = check_bed_header_body(arr', BedFn)
    /\ pc' = "hdr_exit"
    /\ UNCHANGED <<inputs, bim, nmarkers, fam, nsamples, bed, handles, major,
                   decoderCalls, result, err, steps>>

\* _check_bed_header: the with-block is left, normally or by the exception
CheckHeaderExit ==
    /\ pc = "hdr_exit"
    /\ handles' = CloseOnExit(handles, "_check_bed_header.f", exc)
    /\ IF exc # NoExc
       THEN Raise("magic", exc)
       ELSE /\ pc' = "major_open"
            /\ steps' = Append(steps, <<"magic", "ok">>)
            /\ err' = err
    /\ exc' = NoExc
    /\ UNCHANGED <<inputs, bim, nmarkers, fam, nsamples, bed, arr, major,
                   decoderCalls, result>>

\* _major_order: with open(fn, "rb") as f
MajorOrderOpen ==
    /\ pc = "major_open"
    /\ handles' = handles \cup {"_major_order.f"}
    /\ pc' = "major_body"
    /\ UNCHANGED <<inputs, bim, nmarkers, fam, nsamples, bed, arr, exc, major,
                   decoderCalls, result, err, steps>>

\* _major_order: f.seek(2); arr = f.read(1) and the choice of the layout
MajorOrderBody ==
    /\ pc = "major_body"
    /\ arr' = ReadBytes(bedFile, 2, 1)
    /\ exc' = major_order_body(arr').exc
    /\ major' = major_order_body(arr').ret
    /\ pc' = "major_exit"
    /\ UNCHANGED <<inputs, bim, nmarkers, fam, nsamples, bed, handles,
                   decoderCalls, result, err, steps>>

\* _major_order: the with-block is left, by the return or by the exception
MajorOrderExit ==
    /\ pc = "major_exit"
    /\ handles' = CloseOnExit(handles, "_major_order.f", exc)
    /\ IF exc # NoExc
       THEN Raise("orientation", exc)
       ELSE /\ pc' = "decode"
            /\ steps' = Append(steps, <<"orientation", "ok">>)
            /\ err' = err
    /\ exc' = NoExc
    /\ UNCHANGED <<inputs, bim, nmarkers, fam, nsamples, bed, arr, major,
                   decoderCalls, result>>

\* _read_bed: ncols, nrows and return read_bed(fn, nrows, ncols)
Decode ==
    /\ pc = "decode"
    /\ LET ncols == Ncols(major, nsamples, nmarkers)
           nrows == Nrows(major, nsamples, nmarkers)
           out   == read_bed(bedFile, nrows, ncols)
       IN  /\ decoderCalls' = Append(decoderCalls, <<nrows, ncols>>)
           /\ IF out.exc # NoExc
              THEN /\ Raise("decode", out.exc)
                   /\ bed' = bed
              ELSE /\ bed' = out.ret
                   /\ pc' = "return"
                   /\ steps' = Append(steps, <<"decode", "ok">>)
                   /\ err' = err
    /\ UNCHANGED <<inputs, bim, nmarkers, fam, nsamples, arr, exc, handles,
                   major, result>>

\* return (bim, fam, bed)
Return ==
    /\ pc = "return"
    /\ result' = [returned |-> TRUE, bim |-> bim, fam |-> fam, bed |-> bed]
    /\ pc' = "done"
    /\ UNCHANGED <<inputs, bim, nmarkers, fam, nsamples, bed, arr, exc, handles,
                   major, decoderCalls, err, steps>>

Next ==
    \/ ReadBim
    \/ ReadFam
    \/ CheckHeaderOpen
    \/ CheckHeaderBody
    \/ CheckHeaderExit
    \/ MajorOrderOpen
    \/ MajorOrderBody
    \/ MajorOrderExit
    \/ Decode
    \/ Return

Spec == Init /\ [][Next]_vars

\* the same program on every value of the two magic bytes
SpecMagic == (InitMagic \/ InitBadTables \/ InitShort) /\ [][Next]_vars

(***************************************************************************)
(* Properties.                                                             *)
(***************************************************************************)
\* the counts and the layout byte of the fileset read_plink was called on
NumMarkers == Len(bimFile.rows)

NumSamples == Len(famFile.rows)

PayloadLen == Len(bedFile) - 3

StepRun(name) == \E k \in DOMAIN steps : steps[k][1] = name

StepOk(name) == \E k \in DOMAIN steps : steps[k] = <<name, "ok">>

StepFailed(name) == \E k \in DOMAIN steps : steps[k] = <<name, "fail">>

GoodMagic == Len(bedFile) >= 2 /\ bedFile[1] = 108 /\ bedFile[2] = 27

\* ceil(n / 4): the least k with 4 * k >= n
CeilDiv4(n) == CHOOSE k \in 0..n : 4 * k >= n /\ 4 * (k - 1) < n

\* the payload length bytes_per_row * num_physical_rows that the layout byte,
\* the marker count and the sample count call for
ExpectedPayload ==
    IF bedFile[3] = 1 THEN CeilDiv4(NumSamples) * NumMarkers
    ELSE CeilDiv4(NumMarkers) * NumSamples

(* C1: for every pair of counts and both orientation bytes, the matrix that
   read_plink returns has NumMarkers rows of NumSamples cells each and its
   cell [m][s] is the genotype of marker m for sample s of the logical content
   the file was packed from; the content does not depend on the orientation
   byte, so the snp-major and the individual-major packing of one content
   return the same matrix. *)
C1_LogicalMatrix ==
    result.returned =>
        /\ Len(result.bed) = NumMarkers
        /\ \A m \in 1..NumMarkers :
               /\ Len(result.bed[m]) = NumSamples
               /\ \A s \in 1..NumSamples : result.bed[m][s] = genotype[m][s]
        /\ Len(result.bim) = NumMarkers
        /\ Len(result.fam) = NumSamples

\* an individual-major file of 5 markers and 3 samples (two bytes per physical
\* row) whose content is not constant has been returned
C1_Witness ==
    /\ result.returned
    /\ bedFile[3] = 0
    /\ NumMarkers = 5 /\ NumSamples = 3
    /\ result.bed[1][2] # result.bed[2][1]
    /\ result.bed[2][1] # result.bed[1][1]

(* C2: the magic check accepts a .bed file exactly when byte 0 is 108 and
   byte 1 is 27: for every other value of the first two bytes the read fails
   at the magic check with a ValueError and the decoder is never called, and
   for that pair the magic check raises nothing. *)
C2_MagicAccepted ==
    /\ (Len(bedFile) >= 2 /\ ~GoodMagic) =>
           /\ decoderCalls = <<>>
           /\ ~StepOk("magic")
           /\ pc \notin {"major_open", "major_body", "major_exit", "decode",
                         "return", "done"}
    /\ (Len(bedFile) >= 2 /\ StepRun("magic")) =>
           IF GoodMagic
           THEN steps[3] = <<"magic", "ok">>
           ELSE /\ steps[3] = <<"magic", "fail">>
                /\ pc = "failed"
                /\ err.kind = "ValueError"

\* a file whose first byte is right and whose second byte is wrong was rejected
C2_Witness ==
    /\ pc = "failed"
    /\ StepFailed("magic")
    /\ Len(bedFile) >= 2 /\ bedFile[1] = 108 /\ bedFile[2] # 27
    /\ err.kind = "ValueError"

(* C3: byte 2 alone decides the orientation: 1 gives snp-major and the decoder
   is called with nrows = NumMarkers, ncols = NumSamples; 0 gives
   individual-major and the decoder is called with nrows = NumSamples,
   ncols = NumMarkers; any other value fails the read with a ValueError and
   the decoder is not called. *)
C3_Orientation ==
    (Len(bedFile) >= 3 /\ StepRun("orientation")) =>
        CASE bedFile[3] = 1 ->
               /\ StepOk("orientation")
               /\ major = "snp"
               /\ pc # "decode" => decoderCalls = << <<NumMarkers, NumSamples>> >>
          [] bedFile[3] = 0 ->
               /\ StepOk("orientation")
               /\ major = "individual"
               /\ pc # "decode" => decoderCalls = << <<NumSamples, NumMarkers>> >>
          [] OTHER ->
               /\ StepFailed("orientation")
               /\ pc = "failed"
               /\ err.kind = "ValueError"
               /\ decoderCalls = <<>>

\* the decoder was called on an individual-major file of unequal counts
C3_Witness ==
    /\ Len(bedFile) >= 3 /\ bedFile[3] = 0
    /\ NumMarkers # NumSamples
    /\ decoderCalls = << <<NumSamples, NumMarkers>> >>

(* C4: in both metadata tables every record carries the index i of its 0-based
   position in the input file, also after the sort by (chrom, pos) resp.
   (fid, iid): the i values of a table of n records are exactly 0..n-1, each
   once, and the record with index i holds the keys of file row i. *)
C4_IndexPermutation ==
    /\ StepOk("bim") =>
           /\ Len(bim) = NumMarkers
           /\ {bim[k].i : k \in DOMAIN bim} = 0..(NumMarkers - 1)
           /\ \A k \in DOMAIN bim :
                  <<bim[k].chrom, bim[k].pos>> = bimFile.rows[bim[k].i + 1]
           /\ \A j, k \in DOMAIN bim :
                  j < k => ~KeyLess(<<bim[k].chrom, bim[k].pos>>,
                                    <<bim[j].chrom, bim[j].pos>>)
    /\ StepOk("fam") =>
           /\ Len(fam) = NumSamples
           /\ {fam[k].i : k \in DOMAIN fam} = 0..(NumSamples - 1)
           /\ \A k \in DOMAIN fam :
                  <<fam[k].fid, fam[k].iid>> = famFile.rows[fam[k].i + 1]
           /\ \A j, k \in DOMAIN fam :
                  j < k => ~KeyLess(<<fam[k].fid, fam[k].iid>>,
                                    <<fam[j].fid, fam[j].iid>>)

\* a marker table of three records was read whose sort moved the last file
\* row to the front, and a sample table whose sort moved a row as well
C4_Witness ==
    /\ StepOk("bim") /\ StepOk("fam")
    /\ Len(bim) = 3 /\ bim[1].i = 2 /\ bim[2].i = 0
    /\ Len(fam) >= 2 /\ fam[1].i # 0

(* C5: with bytes_per_row = ceil(num_physical_cols / 4), a payload shorter
   than bytes_per_row * num_physical_rows, even by one byte, fails the read
   with TruncatedFile and no matrix is returned; a payload of that length or
   longer decodes to the file's logical content, whatever bytes follow. *)
C5_Truncation ==
    StepRun("decode") =>
        IF PayloadLen < ExpectedPayload
        THEN /\ StepFailed("decode")
             /\ pc = "failed"
             /\ err.kind = "TruncatedFile"
             /\ ~result.returned
             /\ bed = <<>>
        ELSE /\ StepOk("decode")
             /\ pc # "failed"
             /\ bed = genotype

\* an individual-major payload one byte short of its two-byte rows was refused
C5_Witness ==
    /\ StepFailed("decode")
    /\ err.kind = "TruncatedFile"
    /\ bedFile[3] = 0
    /\ NumMarkers = 5 /\ NumSamples = 3
    /\ PayloadLen = ExpectedPayload - 1

(* C6 as stated: in a snp-major file of 5 markers and 3 samples whose first
   payload byte is 0b11011000 (216), that byte holds the codes
   [0b00, 0b10, 0b11, 0b11], so the three samples of marker 0 are called
   2, 1, 0. *)
C6_Original ==
    (/\ result.returned
     /\ NumMarkers = 5 /\ NumSamples = 3
     /\ bedFile[3] = 1 /\ bedFile[4] = 216) =>
        /\ Unpack(bedFile[4]) = <<0, 2, 3, 3>>
        /\ result.bed[1] = <<2, 1, 0>>

(* C6 as amended: every payload byte holds four 2-bit codes, least-significant
   pair first, for consecutive physical columns, and code 0b00 is called 2,
   0b10 is called 1, 0b11 is called 0 and 0b01 is called 3; in a snp-major
   file of 5 markers and 3 samples the first payload byte 0b11011000 (216)
   holds the codes [0b00, 0b10, 0b01, 0b11], so the three samples of marker 0
   are called 2, 1, 3 (the fourth pair is padding). *)
C6_LsbFirstPairs ==
    result.returned =>
        LET callOf   == <<2, 3, 1, 0>>
            physCols == IF bedFile[3] = 1 THEN NumSamples ELSE NumMarkers
            byteOf(r, c) == bedFile[3 + (r - 1) * CeilDiv4(physCols) + ((c - 1) \div 4) + 1]
            shift(c) == IF (c - 1) % 4 = 0 THEN 1
                        ELSE IF (c - 1) % 4 = 1 THEN 4
                        ELSE IF (c - 1) % 4 = 2 THEN 16 ELSE 64
            cell(r, c)   == callOf[((byteOf(r, c) \div shift(c)) % 4) + 1]
        IN  /\ \A m \in 1..NumMarkers : \A s \in 1..NumSamples :
                   result.bed[m][s] = IF bedFile[3] = 1 THEN cell(m, s) ELSE cell(s, m)
            /\ (/\ NumMarkers = 5 /\ NumSamples = 3
                /\ bedFile[3] = 1 /\ bedFile[4] = 216) =>
                   /\ Unpack(bedFile[4]) = <<0, 2, 1, 3>>
                   /\ result.bed[1] = <<2, 1, 3>>

\* the 5 x 3 snp-major file that starts with the byte 216 has been returned
C6_Witness ==
    /\ result.returned
    /\ NumMarkers = 5 /\ NumSamples = 3
    /\ bedFile[3] = 1 /\ bedFile[4] = 216

\* the text t holds the text p as a run of consecutive characters
Contains(t, p) ==
    \E k \in 0..(Len(t) - Len(p)) : SubSeq(t, k + 1, k + Len(p)) = p

(* C7: every ValueError (InvalidFormat) that ends a read, from the magic check
   or from the orientation check, carries the path of the .bed file, as the
   caller's prefix spells it, in its message. *)
C7_ErrorCarriesPath ==
    (pc = "failed" /\ err.kind = "ValueError") =>
        Contains(err.msg, Fn(file_prefix, BedSuffix).val)

(* C8: a read performs the marker-table read, the sample-table read, the magic
   check, the orientation check and the decode in this order, each at most
   once; every step but the last performed succeeded, a failed step ends the
   call with that step's error and nothing returned; the decoder is called
   only after the four earlier steps succeeded; and the triple is returned
   only when all five succeeded, on inputs all five accept, and is complete. *)
C8_AllOrNothing ==
    LET order == <<"bim", "fam", "magic", "orientation", "decode">>
    IN  /\ Len(steps) <= 5
        /\ \A k \in DOMAIN steps : steps[k][1] = order[k]
        /\ \A k \in DOMAIN steps : k < Len(steps) => steps[k][2] = "ok"
        /\ (pc = "failed") <=> (steps # <<>> /\ steps[Len(steps)][2] = "fail")
        /\ pc = "failed" => /\ err # NoExc
                            /\ result = NoResult
                            /\ bed = <<>>
        /\ pc # "failed" => err = NoExc
        /\ Len(decoderCalls) <= 1
        /\ decoderCalls # <<>> =>
               /\ Len(steps) >= 4
               /\ \A k \in 1..4 : steps[k][2] = "ok"
        /\ bimFile.bad => ~StepOk("bim")
        /\ famFile.bad => ~StepOk("fam")
        /\ result.returned <=> pc = "done"
        /\ result.returned =>
               /\ \A k \in 1..5 : steps[k] = <<order[k], "ok">>
               /\ ~bimFile.bad /\ ~famFile.bad /\ GoodMagic
               /\ bedFile[3] \in {0, 1}
               /\ PayloadLen >= ExpectedPayload
               /\ result.bim = bim /\ Len(bim) = NumMarkers
               /\ result.fam = fam /\ Len(fam) = NumSamples
               /\ result.bed = bed /\ Len(bed) = NumMarkers

\* a call that read both tables and passed the magic check ended at the
\* orientation check
C8_Witness ==
    /\ pc = "failed"
    /\ steps = <<<<"bim", "ok">>, <<"fam", "ok">>, <<"magic", "ok">>,
                 <<"orientation", "fail">>>>
    /\ decoderCalls = <<>>

(* C9: the file handle that _check_bed_header opens and the one that
   _major_order opens are each closed when that step ends, by normal return,
   by the ValueError of a bad magic or orientation byte, or by any other
   error; at most one is open at a time and none is open once read_plink has
   returned or failed. *)
C9_HandlesClosed ==
    /\ Cardinality(handles) <= 1
    /\ "_check_bed_header.f" \in handles <=> pc \in {"hdr_body", "hdr_exit"}
    /\ "_major_order.f" \in handles <=> pc \in {"major_body", "major_exit"}
    /\ pc \in {"done", "failed"} => handles = {}

\* a header check that ended with an error other than ValueError left no
\* handle open
C9_Witness ==
    /\ pc = "failed"
    /\ err.kind = "IndexError"
    /\ StepFailed("orientation")
    /\ handles = {}

(* C10: a .bed file of fewer than 3 bytes fails header validation with a
   ValueError, the error kind of a wrong magic or orientation byte, and the
   decoder is not called. *)
C10_ShortFileInvalidFormat ==
    (/\ Len(bedFile) < 3
     /\ StepOk("fam")
     /\ pc \in {"failed", "done"}) =>
        /\ pc = "failed"
        /\ err.kind = "ValueError"
        /\ decoderCalls = <<>>

=============================================================================
